---- MODULE Spec2Model ----
(* State-machine model of clean_old_artifacts_parallel.py: the retention    *)
(* cleanup run (setup, per-repository search, exclusion filtering, pooled   *)
(* deletion, CSV report) and the exclusion matcher is_excluded.             *)
(* Strings that the code matches character by character (paths, patterns)   *)
(* are sequences of one-character strings.                                  *)
EXTENDS Integers, Sequences, FiniteSets, TLC

VARIABLES
    pc,                 \* position of main(): configure, load_exclusions, get_repositories,
                        \*   query, filter, open_pool, pool, write_csv, exit (MatchSpec: match, matched)
    exit_code,          \* process exit status once pc = "exit" (-1 while running)
    exit_cause,         \* which statement ended the process ("none" while running)
    report_written,     \* the CSV file has been written (lines 262-267)
    report,             \* rows written to the CSV file
    dry_run,            \* args.dry_run
    threads,            \* args.threads
    exclusion_patterns, \* list returned by load_exclusion_patterns
    repos,              \* list returned by get_repositories
    repo_idx,           \* index in repos of the repository the for loop of line 205 is at
    artifacts,          \* artifacts of the current repository (line 211)
    item_idx,           \* index in artifacts of the item the for loop of line 220 is at
    delete_commands,    \* delete_commands of the current repository (line 218)
    futures,            \* future_to_cmd of the current pool, in submission order
    csv_records,        \* csv_records (line 203)
    path,               \* path of the last item filtered (line 221)
    matched_patterns,   \* matched_patterns of the last is_excluded call (line 222)
    excluded,           \* value the last is_excluded call returned
    found,              \* history: found[i] = artifacts parsed for repository i
    searched,           \* history: indices of the repositories whose search was run
    query_failed,       \* history: indices of the repositories whose search failed
    executed,           \* history: delete commands handed to subprocess.run
    storage_deleted     \* history: paths the artifact service really removed

vars == << pc, exit_code, exit_cause, report_written, report, dry_run, threads,
           exclusion_patterns, repos, repo_idx, artifacts, item_idx,
           delete_commands, futures, csv_records, path, matched_patterns,
           excluded, found, searched, query_failed, executed, storage_deleted >>

----------------------------------------------------------------------------
(* Bounds *)

MaxRepos == 2        \* repositories the listing returns
MaxArtifacts == 2    \* artifacts the searches of one run return, all repositories together
MaxThreads == 2      \* largest --threads value
MaxPathLen == 3      \* MatchSpec: length of the generated paths
MaxPatterns == 2     \* MatchSpec: length of the pattern list

----------------------------------------------------------------------------
(* Helpers on sequences *)

Range(s) == { s[i] : i \in 1..Len(s) }

SeqsUpTo(S, n) == UNION { [1..k -> S] : k \in 0..n }

----------------------------------------------------------------------------
(* fnmatch.fnmatch(name, pat): shell-glob match of the whole name.  On POSIX *)
(* normcase is the identity.  A pattern is a sequence of tokens: "*", "?",   *)
(* a bracket class, or a literal character.                                  *)

TokMatches(tok, c) ==
    CASE tok = "?" -> TRUE
      [] tok = "[a.]" -> c \in {"a", "."}
      [] OTHER -> tok = c

RECURSIVE fnmatch(_, _)
fnmatch(name, pat) ==
    IF pat = << >> THEN name = << >>
    ELSE IF Head(pat) = "*"
         THEN \E k \in 0..Len(name) :
                 fnmatch(SubSeq(name, k + 1, Len(name)), Tail(pat))
         ELSE /\ name # << >>
              /\ TokMatches(Head(pat), Head(name))
              /\ fnmatch(Tail(name), Tail(pat))

(* is_excluded with a bug: only the first pattern of the list is tested. *)
RECURSIVE is_excluded_first_only(_, _, _)
is_excluded_first_only(full_path, patterns, matched) ==
    IF patterns # << >> /\ fnmatch(full_path, Head(patterns))
    THEN [ret |-> TRUE, matched_patterns |-> matched \cup {Head(patterns)}]
    ELSE [ret |-> FALSE, matched_patterns |-> matched]

(* is_excluded with a bug: the patterns are tested against the basename.   *)
RECURSIVE Basename(_)
Basename(p) ==
    IF "/" \notin Range(p) THEN p ELSE Basename(Tail(p))

RECURSIVE is_excluded_basename(_, _, _)
is_excluded_basename(full_path, patterns, matched) ==
    IF patterns = << >>
    THEN [ret |-> FALSE, matched_patterns |-> matched]
    ELSE IF fnmatch(Basename(full_path), Head(patterns))
         THEN [ret |-> TRUE, matched_patterns |-> matched \cup {Head(patterns)}]
         ELSE is_excluded_basename(full_path, Tail(patterns), matched)

(* is_excluded(full_path, exclusion_patterns, matched_patterns): the loop    *)
(* returns at the first matching pattern, after adding it to the set passed  *)
(* in; the set as mutated is returned beside the result.                     *)
RECURSIVE is_excluded(_, _, _)
is_excluded(full_path, patterns, matched) ==
    IF patterns = << >>
    THEN [ret |-> FALSE, matched_patterns |-> matched]
    ELSE IF fnmatch(full_path, Head(patterns))
         THEN [ret |-> TRUE, matched_patterns |-> matched \cup {Head(patterns)}]
         ELSE is_excluded(full_path, Tail(patterns), matched)

----------------------------------------------------------------------------
(* Inputs of a run *)

PathTmpBak == << "a", "/", "t", "/", "x", ".", "b" >>
PathRel == << "b", "/", "r", "/", "y" >>
Paths == { PathTmpBak, PathRel }

PatLog == << "*", ".", "l" >>
PatTmp == << "*", "/", "t", "/", "*" >>
PatBak == << "*", ".", "b" >>

(* contents of the "exclude" key of the exclusions file *)
ExclusionFiles == { << >>, << PatLog, PatTmp, PatBak >> }

ArtifactLists == SeqsUpTo(Paths, MaxArtifacts)

(* stdout of the search command *)
RawOutputs ==
    { [shape |-> s, items |-> l] : s \in {"list", "results_obj"}, l \in ArtifactLists }
    \cup { [shape |-> s, items |-> << >>] : s \in {"empty", "badjson", "other"} }

None == [shape |-> "None", items |-> << >>]

RepoKey(i) == << "r", i >>

(* the response of /api/repositories/configurations with n deletable        *)
(* repositories: the odd ones LOCAL, the even ones FEDERATED, one REMOTE.    *)
RECURSIVE KeysOfParity(_, _, _)
KeysOfParity(i, n, par) ==
    IF i > n THEN << >>
    ELSE (IF i % 2 = par THEN << i >> ELSE << >>) \o KeysOfParity(i + 1, n, par)

RepoConfiguration(n) ==
    [ LOCAL |-> [ k \in 1..Len(KeysOfParity(1, n, 1)) |->
                    [key |-> RepoKey(KeysOfParity(1, n, 1)[k]), rclass |-> "local"] ],
      FEDERATED |-> [ k \in 1..Len(KeysOfParity(1, n, 0)) |->
                    [key |-> RepoKey(KeysOfParity(1, n, 0)[k]), rclass |-> "federated"] ],
      REMOTE |-> << [key |-> RepoKey(0), rclass |-> "remote"] >> ]

(* get_repositories: the LOCAL entries, then the FEDERATED ones *)
get_repositories(data) ==
    [ k \in 1..Len(data.LOCAL) |->
        [key |-> data.LOCAL[k].key, class |-> data.LOCAL[k].rclass] ]
    \o
    [ k \in 1..Len(data.FEDERATED) |->
        [key |-> data.FEDERATED[k].key, class |-> data.FEDERATED[k].rclass] ]

----------------------------------------------------------------------------
(* Pure steps of main() and of the functions it calls *)

(* get_old_artifacts that does not notice the failed search (no check=True) *)
get_old_artifacts_unchecked(search) == search.stdout

(* get_old_artifacts, once the spec file exists: stdout of a successful     *)
(* search, None when the search command failed.                             *)
get_old_artifacts(search) ==
    IF search.ok THEN search.stdout ELSE None

(* `if not raw_output`: None or the empty string *)
IsFalsyOutput(raw_output) == raw_output.shape \in {"None", "empty"}

(* parse_artifacts: a bare list, or the "results" of an object; anything    *)
(* else, and unparsable text, give the empty list.                          *)
parse_artifacts(search_output) ==
    IF search_output.shape \in {"list", "results_obj"}
    THEN search_output.items
    ELSE << >>

(* build_delete_command that forgets the dry-run flag *)
build_delete_command_no_flag(p, dry) == << "jf", "rt", "del", p, "--quiet" >>

build_delete_command(p, dry) ==
    << "jf", "rt", "del", p, "--quiet" >> \o (IF dry THEN << "--dry-run" >> ELSE << >>)

(* what the delete command did, as subprocess.run reports it *)
DeleteOutcomes == { "ok", "failed_stderr", "failed_no_stderr", "raised" }

(* execute_delete(cmd, logger), given what subprocess.run did: the pair     *)
(* returned, the label logged, or an exception other than                   *)
(* CalledProcessError, which execute_delete does not catch.                 *)
execute_delete(cmd, outcome) ==
    CASE outcome = "ok" ->
           [raised |-> FALSE, success |-> TRUE, error_msg |-> "",
            label |-> IF "--dry-run" \in Range(cmd) THEN "DRYRUN-COMPLETE" ELSE "DELETED"]
      [] outcome = "failed_stderr" ->
           [raised |-> FALSE, success |-> FALSE, error_msg |-> "stderr", label |-> "ERROR"]
      [] outcome = "failed_no_stderr" ->
           [raised |-> FALSE, success |-> FALSE, error_msg |-> "Unknown error", label |-> "ERROR"]
      [] OTHER ->
           [raised |-> TRUE, success |-> FALSE, error_msg |-> "exc", label |-> "none"]

(* the row appended for an excluded artifact (lines 225-231) *)
SkippedRecord(repo, p, matched) ==
    [Repository |-> repo.key, Path |-> p, Status |-> "skipped",
     ExclusionPattern |-> matched, Error |-> ""]

(* the row appended for a collected future (lines 241-259) *)
ResultRecord(repo, cmd, res) ==
    IF ~res.raised
    THEN [Repository |-> repo.key, Path |-> cmd[4],
          Status |-> IF res.success THEN "deleted" ELSE "error",
          ExclusionPattern |-> {}, Error |-> res.error_msg]
    ELSE [Repository |-> repo.key, Path |-> cmd[4], Status |-> "Error",
          ExclusionPattern |-> {}, Error |-> res.error_msg]

(* future_to_cmd keyed by the command instead of the future: equal commands *)
(* collapse into one entry.                                                 *)
RECURSIVE Dedup(_)
Dedup(s) ==
    IF s = << >> THEN << >>
    ELSE IF s[Len(s)] \in Range(SubSeq(s, 1, Len(s) - 1))
         THEN Dedup(SubSeq(s, 1, Len(s) - 1))
         ELSE Dedup(SubSeq(s, 1, Len(s) - 1)) \o << s[Len(s)] >>

future_to_cmd_by_cmd(cmds, r) ==
    [ k \in 1..Len(Dedup(cmds)) |->
        [cmd |-> Dedup(cmds)[k], repo |-> r, state |-> "pending", outcome |-> "none"] ]

(* future_to_cmd (line 238): one future per submitted command *)
future_to_cmd(cmds, r) ==
    [ k \in 1..Len(cmds) |->
        [cmd |-> cmds[k], repo |-> r, state |-> "pending", outcome |-> "none"] ]

InState(futs, st) == { k \in 1..Len(futs) : futs[k].state = st }

(* a pool that starts a task whenever one is queued *)
WorkerFree_unbounded(futs, n) == TRUE

(* ThreadPoolExecutor(max_workers=n): a queued task starts only while fewer *)
(* than n tasks are running.                                                *)
WorkerFree(futs, n) == Cardinality(InState(futs, "running")) < n

(* leaving the with block without waiting for the tasks *)
PoolDrained_no_wait(futs) == TRUE

(* as_completed has yielded every future and the executor has shut down *)
PoolDrained(futs) == \A k \in 1..Len(futs) : futs[k].state = "collected"

(* artifacts found so far in the run *)
RECURSIVE TotalFound(_)
TotalFound(f) == IF f = << >> THEN 0 ELSE Len(Head(f)) + TotalFound(Tail(f))

Exit(code, cause) ==
    /\ pc' = "exit"
    /\ exit_code' = code
    /\ exit_cause' = cause

Running == exit_code' = exit_code /\ exit_cause' = exit_cause

----------------------------------------------------------------------------
(* The run *)

Init ==
    /\ pc = "configure"
    /\ exit_code = -1
    /\ exit_cause = "none"
    /\ report_written = FALSE
    /\ report = << >>
    /\ dry_run \in BOOLEAN
    /\ threads \in 0..MaxThreads
    /\ exclusion_patterns = << >>
    /\ repos = << >>
    /\ repo_idx = 0
    /\ artifacts = << >>
    /\ item_idx = 0
    /\ delete_commands = << >>
    /\ futures = << >>
    /\ csv_records = << >>
    /\ path = << >>
    /\ matched_patterns = {}
    /\ excluded = FALSE
    /\ found = << >>
    /\ searched = {}
    /\ query_failed = {}
    /\ executed = {}
    /\ storage_deleted = {}

(* jfrog_cli_configure: returns when the server is configured already or    *)
(* after config add and config use; exits 1 when either fails.               *)
Configure ==
    /\ pc = "configure"
    /\ \E outcome \in {"already", "added", "add_failed", "use_failed"} :
          IF outcome \in {"already", "added"}
          THEN pc' = "load_exclusions" /\ Running
          ELSE Exit(1, "configure")
    /\ UNCHANGED << report_written, report, dry_run, threads, exclusion_patterns,
                    repos, repo_idx, artifacts, item_idx, delete_commands,
                    futures, csv_records, path, matched_patterns, excluded,
                    found, searched, query_failed, executed, storage_deleted >>

(* load_exclusion_patterns: exits 1 when the file is missing; json.load of  *)
(* an unparsable file raises, which ends the process with a traceback.      *)
LoadExclusions ==
    /\ pc = "load_exclusions"
    /\ \/ /\ Exit(1, "exclusions_missing")
          /\ UNCHANGED exclusion_patterns
       \/ /\ Exit(1, "exclusions_unparsable")
          /\ UNCHANGED exclusion_patterns
       \/ /\ \E patterns \in ExclusionFiles : exclusion_patterns' = patterns
          /\ pc' = "get_repositories"
          /\ Running
    /\ UNCHANGED << report_written, report, dry_run, threads,
                    repos, repo_idx, artifacts, item_idx, delete_commands,
                    futures, csv_records, path, matched_patterns, excluded,
                    found, searched, query_failed, executed, storage_deleted >>

(* get_repositories and lines 193-203: exit 1 when the listing fails or is  *)
(* unparsable; return (exit 0, nothing written) when no repository is left. *)
GetRepositories ==
    /\ pc = "get_repositories"
    /\ \/ /\ Exit(1, "repositories")
          /\ UNCHANGED << repos, repo_idx, found >>
       \/ \E n \in 0..MaxRepos :
            LET rs == get_repositories(RepoConfiguration(n)) IN
            /\ repos' = rs
            /\ found' = [ i \in 1..Len(rs) |-> << >> ]
            /\ IF rs = << >>
               THEN Exit(0, "no_repositories") /\ UNCHANGED repo_idx
               ELSE pc' = "query" /\ repo_idx' = 1 /\ Running
    /\ UNCHANGED << report_written, report, dry_run, threads, exclusion_patterns,
                    artifacts, item_idx, delete_commands,
                    futures, csv_records, path, matched_patterns, excluded,
                    searched, query_failed, executed, storage_deleted >>

(* the for statement of line 205 moving to the next repository, or past the *)
(* last one to the CSV writer.                                              *)
Advance ==
    /\ repo_idx' = repo_idx + 1
    /\ pc' = IF repo_idx < Len(repos) THEN "query" ELSE "write_csv"

(* lines 206-218 for one repository: get_old_artifacts (exit 1 when the     *)
(* spec file does not exist), the falsy-output test, parse_artifacts, the   *)
(* empty-list test.                                                         *)
QueryRepo ==
    /\ pc = "query"
    /\ \/ /\ Exit(1, "aql_spec_missing")
          /\ UNCHANGED << repo_idx, artifacts, item_idx, delete_commands, found,
                          query_failed, searched >>
       \/ \E ok \in BOOLEAN, out \in RawOutputs :
            LET raw_output == get_old_artifacts([ok |-> ok, stdout |-> out])
                parsed == parse_artifacts(raw_output)
            IN
            /\ Len(out.items) <= MaxArtifacts - TotalFound(found)
            /\ Running
            /\ searched' = searched \cup {repo_idx}
            /\ query_failed' = IF ok THEN query_failed ELSE query_failed \cup {repo_idx}
            /\ IF IsFalsyOutput(raw_output) \/ parsed = << >>
               THEN /\ Advance
                    /\ UNCHANGED << artifacts, item_idx, delete_commands, found >>
               ELSE /\ artifacts' = parsed
                    /\ found' = [found EXCEPT ![repo_idx] = parsed]
                    /\ delete_commands' = << >>
                    /\ item_idx' = 1
                    /\ pc' = "filter"
                    /\ UNCHANGED repo_idx
    /\ UNCHANGED << report_written, report, dry_run, threads, exclusion_patterns,
                    repos, futures, csv_records, path, matched_patterns, excluded,
                    executed, storage_deleted >>

(* one iteration of the loop of lines 220-235 *)
FilterItem ==
    /\ pc = "filter"
    /\ item_idx <= Len(artifacts)
    /\ LET p == artifacts[item_idx]
           r == is_excluded(p, exclusion_patterns, {})
       IN
       /\ path' = p
       /\ matched_patterns' = r.matched_patterns
       /\ excluded' = r.ret
       /\ IF r.ret
          THEN /\ csv_records' = Append(csv_records,
                                   SkippedRecord(repos[repo_idx], p, r.matched_patterns))
               /\ UNCHANGED delete_commands
          ELSE /\ delete_commands' = Append(delete_commands,
                                   build_delete_command(p, dry_run))
               /\ UNCHANGED csv_records
    /\ item_idx' = item_idx + 1
    /\ pc' = IF item_idx < Len(artifacts) THEN "filter" ELSE "open_pool"
    /\ UNCHANGED << exit_code, exit_cause, report_written, report, dry_run, threads,
                    exclusion_patterns, repos, repo_idx, artifacts, futures,
                    found, searched, query_failed, executed, storage_deleted >>

(* lines 237-238: ThreadPoolExecutor(max_workers=threads) raises ValueError *)
(* when threads <= 0, which nothing catches; otherwise every command is     *)
(* submitted.                                                               *)
OpenPool ==
    /\ pc = "open_pool"
    /\ IF threads <= 0
       THEN Exit(1, "threads_invalid") /\ UNCHANGED futures
       ELSE /\ futures' = future_to_cmd(delete_commands, repo_idx)
            /\ pc' = "pool"
            /\ Running
    /\ UNCHANGED << report_written, report, dry_run, threads, exclusion_patterns,
                    repos, repo_idx, artifacts, item_idx, delete_commands,
                    csv_records, path, matched_patterns, excluded,
                    found, searched, query_failed, executed, storage_deleted >>

(* a worker takes the oldest queued task and calls subprocess.run (line 158) *)
StartDelete ==
    /\ pc \in {"pool", "query", "filter", "open_pool", "write_csv"}
    /\ InState(futures, "pending") # {}
    /\ WorkerFree(futures, threads)
    /\ LET k == CHOOSE i \in InState(futures, "pending") :
                   \A j \in InState(futures, "pending") : i <= j
       IN
       /\ futures' = [futures EXCEPT ![k].state = "running"]
       /\ executed' = executed \cup { [repo |-> futures[k].repo, cmd |-> futures[k].cmd] }
    /\ UNCHANGED << pc, exit_code, exit_cause, report_written, report, dry_run, threads,
                    exclusion_patterns, repos, repo_idx, artifacts, item_idx,
                    delete_commands, csv_records, path, matched_patterns, excluded,
                    found, searched, query_failed, storage_deleted >>

(* the delete command of a running task ends; the service removes the       *)
(* artifact when the command succeeds and was not a dry run.                *)
FinishDelete ==
    /\ pc \in {"pool", "query", "filter", "open_pool", "write_csv"}
    /\ \E k \in InState(futures, "running"), outcome \in DeleteOutcomes :
         /\ futures' = [futures EXCEPT ![k].state = "done", ![k].outcome = outcome]
         /\ storage_deleted' =
              IF outcome = "ok" /\ "--dry-run" \notin Range(SubSeq(futures[k].cmd, 5, Len(futures[k].cmd)))
              THEN storage_deleted \cup { [repo |-> futures[k].repo, path |-> futures[k].cmd[4]] }
              ELSE storage_deleted
    /\ UNCHANGED << pc, exit_code, exit_cause, report_written, report, dry_run, threads,
                    exclusion_patterns, repos, repo_idx, artifacts, item_idx,
                    delete_commands, csv_records, path, matched_patterns, excluded,
                    found, searched, query_failed, executed >>

(* one iteration of the as_completed loop (lines 239-259) *)
Collect ==
    /\ pc = "pool"
    /\ \E k \in InState(futures, "done") :
         /\ futures' = [futures EXCEPT ![k].state = "collected"]
         /\ csv_records' = Append(csv_records,
                ResultRecord(repos[repo_idx], futures[k].cmd,
                             execute_delete(futures[k].cmd, futures[k].outcome)))
    /\ UNCHANGED << pc, exit_code, exit_cause, report_written, report, dry_run, threads,
                    exclusion_patterns, repos, repo_idx, artifacts, item_idx,
                    delete_commands, path, matched_patterns, excluded,
                    found, searched, query_failed, executed, storage_deleted >>

(* the with block of line 237 ends and the loop of line 205 goes on *)
ClosePool ==
    /\ pc = "pool"
    /\ PoolDrained(futures)
    /\ Advance
    /\ UNCHANGED << exit_code, exit_cause, report_written, report, dry_run, threads,
                    exclusion_patterns, repos, artifacts, item_idx,
                    delete_commands, futures, csv_records, path, matched_patterns,
                    excluded, found, searched, query_failed, executed, storage_deleted >>

(* lines 261-269: the report is written and main returns *)
WriteCsv ==
    /\ pc = "write_csv"
    /\ report' = csv_records
    /\ report_written' = TRUE
    /\ Exit(0, "completed")
    /\ UNCHANGED << dry_run, threads, exclusion_patterns, repos, repo_idx,
                    artifacts, item_idx, delete_commands, futures, csv_records,
                    path, matched_patterns, excluded, found, searched, query_failed,
                    executed, storage_deleted >>

Next ==
    \/ Configure
    \/ LoadExclusions
    \/ GetRepositories
    \/ QueryRepo
    \/ FilterItem
    \/ OpenPool
    \/ StartDelete
    \/ FinishDelete
    \/ Collect
    \/ ClosePool
    \/ WriteCsv

Spec == Init /\ [][Next]_vars

----------------------------------------------------------------------------
(* is_excluded on its own: every short path against every short list of     *)
(* patterns.                                                                *)

MatchChars == { "a", "/", "." }

MatchPaths == SeqsUpTo(MatchChars, MaxPathLen) \cup Paths

MatchPatterns ==
    { << "a", "*" >>, << "*", "/", "*" >>, << "*", ".", "a" >>, << "?" >>,
      << "[a.]", "/", "?" >>, PatTmp, PatBak }

InitMatch ==
    /\ pc = "match"
    /\ path \in MatchPaths
    /\ exclusion_patterns \in SeqsUpTo(MatchPatterns, MaxPatterns)
    /\ matched_patterns = {}
    /\ excluded = FALSE
    /\ exit_code = -1
    /\ exit_cause = "none"
    /\ report_written = FALSE
    /\ report = << >>
    /\ dry_run = FALSE
    /\ threads = 1
    /\ repos = << >>
    /\ repo_idx = 0
    /\ artifacts = << >>
    /\ item_idx = 0
    /\ delete_commands = << >>
    /\ futures = << >>
    /\ csv_records = << >>
    /\ found = << >>
    /\ searched = {}
    /\ query_failed = {}
    /\ executed = {}
    /\ storage_deleted = {}

(* lines 222-223: a fresh set, then the call *)
CallIsExcluded ==
    /\ pc = "match"
    /\ LET r == is_excluded(path, exclusion_patterns, {}) IN
       /\ matched_patterns' = r.matched_patterns
       /\ excluded' = r.ret
    /\ pc' = "matched"
    /\ UNCHANGED << exit_code, exit_cause, report_written, report, dry_run, threads,
                    exclusion_patterns, repos, repo_idx, artifacts, item_idx,
                    delete_commands, futures, csv_records, path,
                    found, searched, query_failed, executed, storage_deleted >>

NextMatch == CallIsExcluded

MatchSpec == InitMatch /\ [][NextMatch]_vars

----------------------------------------------------------------------------
(* Properties *)

RecordsOf(key, p) ==
    { k \in 1..Len(csv_records) :
        csv_records[k].Repository = key /\ csv_records[k].Path = p }

Occurrences(list, p) == { k \in 1..Len(list) : list[k] = p }

Matching(p, patterns) == { q \in Range(patterns) : fnmatch(p, q) }

(* fnmatch of every path of a run against every pattern of an exclusions   *)
(* file, and the loaded patterns that match a path of the run              *)
GlobTable ==
    [ p \in Paths |-> [ q \in UNION { Range(f) : f \in ExclusionFiles } |-> fnmatch(p, q) ] ]

MatchingLoaded(p) == { q \in Range(exclusion_patterns) : GlobTable[p][q] }

Reorderings(list) ==
    { [ i \in 1..Len(list) |-> list[f[i]] ] :
        f \in { g \in [1..Len(list) -> 1..Len(list)] :
                  \A a, b \in 1..Len(list) : a # b => g[a] # g[b] } }

HasDryRunFlag(cmd) == "--dry-run" \in Range(SubSeq(cmd, 5, Len(cmd)))

(* C1: once a repository has been processed, csv_records holds for each of  *)
(* its paths as many rows as the search returned artifacts with that path   *)
(* (one row per artifact, skipped or delete attempt, whatever order the     *)
(* deletions completed in); between repositories and at the end the number  *)
(* of rows is the number of artifacts found, and the report written is      *)
(* csv_records.                                                             *)
C1_OneOutcomePerArtifact ==
    /\ \A i \in 1..Len(repos) :
         i < repo_idx =>
           \A p \in Paths :
             Cardinality(RecordsOf(repos[i].key, p)) = Cardinality(Occurrences(found[i], p))
    /\ (pc \in {"query", "write_csv"} \/ exit_cause = "completed") =>
         Len(csv_records) = TotalFound(found)
    /\ exit_cause = "completed" => report = csv_records

(* C1 witness: a finished run whose first repository had two artifacts,     *)
(* both deleted, collected in the reverse of the submission order.          *)
C1_Witness ==
    /\ exit_cause = "completed"
    /\ Len(found[1]) = 2
    /\ found[1][1] # found[1][2]
    /\ Len(report) = 2
    /\ report[1].Path = found[1][2]
    /\ report[2].Path = found[1][1]
    /\ report[1].Status # "skipped"
    /\ report[2].Status # "skipped"

(* C2: no delete command is built, queued or run for a path that matches a  *)
(* loaded exclusion pattern, dry-run or not; the iteration that finds the   *)
(* match appends a skipped row for that path and goes on to the next item. *)
C2_ExcludedNeverDeleted ==
    /\ \A e \in executed : MatchingLoaded(e.cmd[4]) = {}
    /\ \A k \in 1..Len(futures) : MatchingLoaded(futures[k].cmd[4]) = {}
    /\ \A k \in 1..Len(delete_commands) : MatchingLoaded(delete_commands[k][4]) = {}
    /\ \A e \in storage_deleted : MatchingLoaded(e.path) = {}
    /\ (pc \in {"filter", "open_pool"} /\ item_idx > 1 /\ MatchingLoaded(path) # {}) =>
         /\ csv_records # << >>
         /\ csv_records[Len(csv_records)].Status = "skipped"
         /\ csv_records[Len(csv_records)].Path = path
         /\ csv_records[Len(csv_records)].Repository = repos[repo_idx].key

(* C2 witness: an excluded artifact that the first pattern does not match,  *)
(* skipped, and another artifact whose delete ran.                          *)
C2_Witness ==
    /\ exclusion_patterns # << >>
    /\ \E k \in 1..Len(csv_records) :
         /\ csv_records[k].Status = "skipped"
         /\ ~fnmatch(csv_records[k].Path, exclusion_patterns[1])
    /\ executed # {}

(* C3: the Exclusion Pattern of every skipped row is the set of all the     *)
(* loaded patterns that match the row's path.                               *)
C3_AllMatchingPatternsReported ==
    \A k \in 1..Len(csv_records) :
      csv_records[k].Status = "skipped" =>
        csv_records[k].ExclusionPattern = MatchingLoaded(csv_records[k].Path)

(* C4: is_excluded returns true exactly when some pattern of the list       *)
(* matches the whole path; false for the empty list; the same for every     *)
(* order of the list.                                                       *)
C4_ExcludedIffSomePatternMatches ==
    pc = "matched" =>
      /\ excluded = (Matching(path, exclusion_patterns) # {})
      /\ (exclusion_patterns = << >> => ~excluded)
      /\ \A q \in Reorderings(exclusion_patterns) : is_excluded(path, q, {}).ret = excluded

(* C4 witness: a path with a separator excluded by the second pattern of    *)
(* the list only.                                                           *)
C4_Witness ==
    /\ pc = "matched"
    /\ excluded
    /\ "/" \in Range(path)
    /\ Len(exclusion_patterns) = 2
    /\ ~fnmatch(path, exclusion_patterns[1])

(* C5: a repository whose search failed has no row in csv_records and no    *)
(* artifact; the loop has moved past it, the next repository is searched,   *)
(* and a run that reaches the CSV writer has searched every repository.     *)
C5_FailedQueryIsolated ==
    /\ \A i \in query_failed :
         /\ \A k \in 1..Len(csv_records) : csv_records[k].Repository # repos[i].key
         /\ found[i] = << >>
         /\ repo_idx > i
         /\ exit_cause \in {"none", "completed", "aql_spec_missing", "threads_invalid"}
         /\ i < Len(repos) =>
              \/ i + 1 \in searched
              \/ pc = "query" /\ repo_idx = i + 1
              \/ exit_cause = "aql_spec_missing" /\ repo_idx = i + 1
    /\ exit_cause = "completed" => searched = 1..Len(repos)

(* C5 witness: the first repository's search failed, the second returned    *)
(* two artifacts, and the report holds exactly those two rows.              *)
C5_Witness ==
    /\ exit_cause = "completed"
    /\ 1 \in query_failed
    /\ Len(repos) >= 2
    /\ Len(found[2]) = 2
    /\ Len(report) = 2
    /\ \A k \in 1..2 : report[k].Repository = repos[2].key

SetupFailures == { "configure", "exclusions_missing", "exclusions_unparsable", "repositories" }

(* C6: a run that got through setup ends with the report written and exit  *)
(* status zero.                                                             *)
C6_ReportWrittenExitZero ==
    (pc = "exit" /\ exit_cause \notin SetupFailures) =>
      (report_written /\ exit_code = 0)

(* C7: every row of csv_records has a status in {skipped, deleted, error}.  *)
C7_StatusVocabulary ==
    \A k \in 1..Len(csv_records) :
      csv_records[k].Status \in {"skipped", "deleted", "error"}

(* C8: with dry-run set every delete command run carries --dry-run and the  *)
(* service removes nothing; dry-run or not, the row of a collected delete   *)
(* is decided by what the command did alone (ok: deleted, no error text;    *)
(* failed: error with stderr or "Unknown error"), and only the label of a   *)
(* successful command differs (DRYRUN-COMPLETE with dry-run, DELETED         *)
(* without).                                                                *)
C8_DryRunOnlyChangesLabel ==
    /\ dry_run => /\ \A e \in executed : HasDryRunFlag(e.cmd)
                  /\ storage_deleted = {}
    /\ \A k \in 1..Len(futures) :
         /\ (futures[k].state = "collected" /\ futures[k].outcome # "raised") =>
              \E j \in 1..Len(csv_records) :
                /\ csv_records[j].Repository = repos[futures[k].repo].key
                /\ csv_records[j].Path = futures[k].cmd[4]
                /\ csv_records[j].Status =
                     (IF futures[k].outcome = "ok" THEN "deleted" ELSE "error")
                /\ csv_records[j].Error =
                     (CASE futures[k].outcome = "ok" -> ""
                        [] futures[k].outcome = "failed_stderr" -> "stderr"
                        [] OTHER -> "Unknown error")
         /\ futures[k].outcome = "ok" =>
              execute_delete(futures[k].cmd, "ok").label =
                (IF dry_run THEN "DRYRUN-COMPLETE" ELSE "DELETED")

(* C8 witness: a dry run in which one delete succeeded and one failed, both *)
(* collected.                                                               *)
C8_Witness ==
    /\ dry_run
    /\ Len(futures) = 2
    /\ \A k \in 1..2 : futures[k].state = "collected"
    /\ futures[1].outcome = "ok"
    /\ futures[2].outcome = "failed_no_stderr"
    /\ \E j \in 1..Len(csv_records) : csv_records[j].Status = "deleted"
    /\ \E j \in 1..Len(csv_records) : csv_records[j].Status = "error"

(* C9: repositories are searched in enumeration order, one at a time; a     *)
(* delete that is queued, running or not yet collected belongs to the       *)
(* repository the loop is at, and exists only while main is collecting that *)
(* repository's pool, so the next search is not run before; at most         *)
(* `threads` deletes run at once.                                           *)
C9_SequentialReposBoundedPool ==
    /\ Cardinality(InState(futures, "running")) <= threads
    /\ \A k \in 1..Len(futures) :
         futures[k].state # "collected" => (pc = "pool" /\ futures[k].repo = repo_idx)
    /\ \A e \in executed : e.repo <= repo_idx /\ e.repo \in searched
    /\ \E n \in 0..Len(repos) : searched = 1..n
    /\ \A i \in searched : i <= repo_idx

(* C9 witness: in the second repository's pool, with one thread, one delete *)
(* runs while another waits for the worker.                                 *)
C9_Witness ==
    /\ pc = "pool"
    /\ repo_idx = 2
    /\ threads = 1
    /\ InState(futures, "running") # {}
    /\ InState(futures, "pending") # {}

(* C10: a run with a valid thread count that exits with a non-zero status   *)
(* has run no delete command: fatal exits happen before any delete is       *)
(* dispatched, and in particular the query-spec-file check never ends the   *)
(* process after an earlier repository's deletes have run.                  *)
C10_FatalOnlyBeforeAnyDelete ==
    (threads >= 1 /\ pc = "exit" /\ exit_code # 0) => executed = {}

====
